---- MODULE Spec2Model ----
(***************************************************************************)
(* A model of the payment-allocation engine of walmart-agent               *)
(* (src/src/finance_brain.py, FinanceBrainAgent).                          *)
(*                                                                         *)
(* Money is held in whole cents (a price of $24.99 is 2499).  Values the   *)
(* code keeps unrounded carry their unit in the name: X4 is in quarters of *)
(* a cent, X10 in tenths of a cent.  round(x, 2) of the code is RoundDiv:  *)
(* to the nearest cent, and on an exact half cent the direction the float  *)
(* representation gives (see RoundDiv, TieUpQuarter).                      *)
(*                                                                         *)
(* Time is held in ticks, TicksPerDay to the day; tick 0 is a midnight.    *)
(* A formatted date is the sequence of the components its format keeps:    *)
(* <<day>> for "%Y-%m-%d", <<day, tick of day>> for isoformat().           *)
(***************************************************************************)
EXTENDS Integers, Sequences, FiniteSets, TLC

\* ------------------------------------------------------------ bounds
MaxCart == 3        \* longest cart handed to the agent
MaxTick == 1        \* last value of the clock
TicksPerDay == 2    \* resolution of the clock within a day
MaxAmount == 200    \* largest of the small amounts handed to the planner, in cents

\* ------------------------------------------------- program constants
BNPL_MIN_AMOUNT == 3500
BNPL_MAX_AMOUNT == 200000
ESSENTIAL_CATEGORIES == {"Groceries", "Baby & Kids", "Health & Beauty", "Medicine"}
DAYS_AHEAD == 30
INSTALLMENTS == 4
INTERVAL_WEEKS == 2
LOW_BALANCE == 10000

None == [none |-> TRUE]

\* ------------------------------------------------------------ helpers
\* Variant: no floor.
SecondOf(a, b) == b

Max(a, b) == IF a >= b THEN a ELSE b

RECURSIVE SumSeq(_)
SumSeq(s) == IF s = <<>> THEN 0 ELSE Head(s) + SumSeq(Tail(s))

\* round(n/d, 2) for n in 1/d cents: the nearest cent; on an exact half
\* cent, up iff tieUp.
\* The directions an exact half cent can take; one when there is no tie.
Ties(n, d) == IF 2 * (n % d) = d THEN BOOLEAN ELSE {FALSE}

RoundDiv(n, d, tieUp) ==
    LET q == n \div d
        r == n % d
    IN  IF 2 * r < d THEN q
        ELSE IF 2 * r > d THEN q + 1
        ELSE IF tieUp THEN q + 1 ELSE q

\* strftime("%Y-%m-%d"): the day only.
strftime(t) == << t \div TicksPerDay >>
\* datetime.isoformat(): the day and the time of day.
isoformat(t) == << t \div TicksPerDay, t % TicksPerDay >>
\* dateutil.parser.parse of either form; a date without a time is midnight.
parse_date(s) == s[1] * TicksPerDay + (IF Len(s) > 1 THEN s[2] ELSE 0)
timedelta_days(n) == n * TicksPerDay

\* ------------------------------------------------------ profile store
\* data/mock_user_db.json as _load_user_db leaves it in self.users
UserDb ==
    [ user_001 |->
        [ id |-> "user_001", name |-> "Alex",
          bank_balance |-> 50000,
          upcoming_bills |-> << [name |-> "Rent", amount |-> 29999, due_date |-> <<10>>],
                                [name |-> "Fee",  amount |-> 1,     due_date |-> <<0>>] >>,
          next_paycheck |-> [amount |-> 120000, date |-> <<14>>],
          bnpl_eligible |-> TRUE ],
      user_002 |->
        [ id |-> "user_002", name |-> "Blake",
          bank_balance |-> 8005,
          upcoming_bills |-> << [name |-> "Phone", amount |-> 5000, due_date |-> <<30>>] >>,
          next_paycheck |-> [amount |-> 90000, date |-> <<31>>],
          bnpl_eligible |-> FALSE ] ]

\* The ids a caller may pass; "ghost" is in no store.
UserIds == DOMAIN UserDb \cup {"ghost"}

\* ------------------------------------------------------ the caller's data
\* Raw item dictionaries as the collaborators (manual entry, OCR, vision)
\* supply them; a dictionary may lack keys.
ItemPool ==
    { [name |-> "Diapers", price |-> 2499,   category |-> "Baby & Kids", bnpl_eligible |-> TRUE],
      [name |-> "AirPods", price |-> 14999,  category |-> "Electronics", bnpl_eligible |-> TRUE],
      [name |-> "Socks",   price |-> 1000,   category |-> "Clothing",    bnpl_eligible |-> TRUE],
      [name |-> "Laptop",  price |-> 200001, category |-> "Electronics", bnpl_eligible |-> TRUE],
      [name |-> "Monitor", price |-> 15001,  category |-> "Electronics", bnpl_eligible |-> TRUE],
      [name |-> "Insulin", price |-> 16000,  category |-> "Medicine",    bnpl_eligible |-> TRUE],
      [name |-> "Sofa",    price |-> 36000,  category |-> "Furniture",   bnpl_eligible |-> FALSE],
      [name |-> "Refund",  price |-> -500,   category |-> "Clothing",    bnpl_eligible |-> TRUE] }

Carts == UNION { [1..n -> ItemPool] : n \in 0..MaxCart }

VARIABLES
    users,          \* self.users: the profile store, by user id
    now,            \* datetime.now(), in ticks
    cart_items,     \* the caller's list of CartItem objects
    optimization,   \* the CartOptimization the caller holds, or None
    ret,            \* the last call: its name, its arguments as passed, its return
                    \* value or error, and the sides its half cents fell on (ties)
    calls,          \* the calls in progress on the agent at once, by caller
    session         \* st.session_state of the application, or None

vars == << users, now, cart_items, optimization, ret, calls, session >>

get_user(user_id) == IF user_id \in DOMAIN users THEN users[user_id] ELSE None

\* ------------------------------------------- calculate_available_funds
RECURSIVE UpcomingBills(_, _, _)
UpcomingBills(bills, today, cutoff) ==
    IF bills = <<>> THEN <<>>
    ELSE LET bill == Head(bills)
             due_date == parse_date(bill.due_date)
             rest == UpcomingBills(Tail(bills), today, cutoff)
         IN  IF today <= due_date /\ due_date <= cutoff
             THEN << [ name |-> bill.name, amount |-> bill.amount,
                       due_date |-> bill.due_date,
                       days_until |-> (due_date - today) \div TicksPerDay ] >> \o rest
             ELSE rest

RECURSIVE BillTotal(_)
BillTotal(bills) == IF bills = <<>> THEN 0 ELSE Head(bills).amount + BillTotal(Tail(bills))

Finances(user, today, availTie, safeTie) ==
    LET cutoff == today + timedelta_days(DAYS_AHEAD)
        balance == user.bank_balance
        upcoming_bills == UpcomingBills(user.upcoming_bills, today, cutoff)
        total_bills == BillTotal(upcoming_bills)
        paycheck == user.next_paycheck
        paycheck_date == IF paycheck # None THEN parse_date(paycheck.date) ELSE -1
        paycheck_amount ==
            IF paycheck # None /\ today <= paycheck_date /\ paycheck_date <= cutoff
            THEN paycheck.amount ELSE 0
        projected_balance == balance - total_bills + paycheck_amount
        \* buffer = balance * 0.10, so 10 * (balance - bills - buffer) is
        \* 9 * balance - 10 * bills tenths of a cent
        available10 == Max(0, 9 * balance - 10 * total_bills)
    IN  [ current_balance |-> balance,
          upcoming_bills |-> upcoming_bills,
          total_bills |-> total_bills,
          paycheck_expected |-> paycheck_amount,
          paycheck_date |-> IF paycheck # None THEN isoformat(paycheck_date) ELSE <<>>,
          projected_balance |-> projected_balance,
          available_for_spending |-> RoundDiv(available10, 10, availTie),
          safe_bnpl_installment |-> RoundDiv(available10, 40, safeTie),
          bnpl_eligible |-> user.bnpl_eligible ]

UserNotFound(op, user_id) == [op |-> op, user_id |-> user_id, error |-> "User not found"]

\* 10 * max(0, balance - bills - buffer) for the user as of today.
Available10(user, today) ==
    Max(0, 9 * user.bank_balance
           - 10 * BillTotal(UpcomingBills(user.upcoming_bills, today,
                                          today + timedelta_days(DAYS_AHEAD))))

calculate_available_funds(user_id) ==
    /\ IF get_user(user_id) = None
       THEN ret' = UserNotFound("calculate_available_funds", user_id)
       ELSE \E availTie \in Ties(Available10(get_user(user_id), now), 10),
               safeTie \in Ties(Available10(get_user(user_id), now), 40) :
            ret' = [ op |-> "calculate_available_funds", user_id |-> user_id, error |-> "",
                     today |-> now,
                     value |-> Finances(get_user(user_id), now, availTie, safeTie) ]
    /\ UNCHANGED << calls, session, users, now, cart_items, optimization >>

\* ---------------------------------------------------- create_cart_items
\* item.get(key, default) for each key; is_essential takes the dataclass
\* default.
CartItem(item) ==
    [ name |-> IF "name" \in DOMAIN item THEN item.name ELSE "Unknown Item",
      price |-> IF "price" \in DOMAIN item THEN item.price ELSE 0,
      category |-> IF "category" \in DOMAIN item THEN item.category ELSE "General",
      bnpl_eligible |-> IF "bnpl_eligible" \in DOMAIN item THEN item.bnpl_eligible ELSE TRUE,
      is_essential |-> FALSE ]

create_cart_items(data) == [i \in DOMAIN data |-> CartItem(data[i])]

\* --------------------------------------------------------- classify_items
\* Items are objects: a list of items is the sequence of their positions in
\* the list the caller passed.
IsEssentialCategory(item) == item.category \in ESSENTIAL_CATEGORIES

\* Variant: the price is not tested.
IsCandidateAnyPrice(item) ==
    /\ ~ IsEssentialCategory(item)
    /\ item.bnpl_eligible

IsCandidate(item) ==
    /\ ~ IsEssentialCategory(item)
    /\ item.bnpl_eligible
    /\ item.price >= BNPL_MIN_AMOUNT

\* Variant: the price test is made before the category test.
RECURSIVE ClassifyFromPriceFirst(_, _)
ClassifyFromPriceFirst(items, i) ==
    IF i > Len(items) THEN [essential |-> <<>>, discretionary |-> <<>>]
    ELSE LET rest == ClassifyFromPriceFirst(items, i + 1)
         IN  IF items[i].bnpl_eligible /\ items[i].price >= BNPL_MIN_AMOUNT
             THEN [rest EXCEPT !.discretionary = <<i>> \o @]
             ELSE [rest EXCEPT !.essential = <<i>> \o @]

\* Variant: an item that already carries the flag is passed over.
RECURSIVE ClassifyFromSkipsFlagged(_, _)
ClassifyFromSkipsFlagged(items, i) ==
    IF i > Len(items) THEN [essential |-> <<>>, discretionary |-> <<>>]
    ELSE LET rest == ClassifyFromSkipsFlagged(items, i + 1)
         IN  IF items[i].is_essential THEN rest
             ELSE IF IsEssentialCategory(items[i])
             THEN [rest EXCEPT !.essential = <<i>> \o @]
             ELSE IF IsCandidate(items[i])
             THEN [rest EXCEPT !.discretionary = <<i>> \o @]
             ELSE [rest EXCEPT !.essential = <<i>> \o @]

RECURSIVE ClassifyFrom(_, _)
ClassifyFrom(items, i) ==
    IF i > Len(items) THEN [essential |-> <<>>, discretionary |-> <<>>]
    ELSE LET rest == ClassifyFrom(items, i + 1)
         IN  IF IsEssentialCategory(items[i])
             THEN [rest EXCEPT !.essential = <<i>> \o @]
             ELSE IF IsCandidate(items[i])
             THEN [rest EXCEPT !.discretionary = <<i>> \o @]
             ELSE [rest EXCEPT !.essential = <<i>> \o @]

\* The flag the loop writes into each item it visits.
MarkEssential(items) ==
    [i \in DOMAIN items |-> [items[i] EXCEPT !.is_essential = IsEssentialCategory(items[i])]]

classify_items(items) ==
    [ essential |-> ClassifyFrom(items, 1).essential,
      discretionary |-> ClassifyFrom(items, 1).discretionary,
      items |-> MarkEssential(items) ]

\* A call of classify_items on the caller's list: the two lists it returns,
\* and the flags it leaves in the items.
call_classify_items ==
    /\ ret' = [ op |-> "classify_items", error |-> "", items |-> cart_items,
                value |-> [ essential |-> classify_items(cart_items).essential,
                            discretionary |-> classify_items(cart_items).discretionary ] ]
    /\ cart_items' = classify_items(cart_items).items
    /\ UNCHANGED << calls, session, users, now, optimization >>

\* ----------------------------------------------------- calculate_bnpl_plan
RECURSIVE Pow2Mod100(_)
Pow2Mod100(e) == IF e = 0 THEN 1 ELSE (2 * Pow2Mod100(e - 1)) % 100

\* The binary exponent of amount/100 dollars: 2^j <= amount/100 < 2^(j+1).
RECURSIVE Exponent(_, _, _)
Exponent(lo, hi, j) ==
    \* lo/hi is the amount in dollars scaled by 2^-j
    IF lo < hi THEN Exponent(2 * lo, hi, j - 1)
    ELSE IF lo >= 2 * hi THEN Exponent(lo, 2 * hi, j + 1)
    ELSE j

\* round(amount / 4, 2) when amount / 4 ends in half a cent.  amount is the
\* double nearest to the decimal price, and a quarter of it is exact, so the
\* half cent is exact only if the price is a binary fraction (round() then
\* goes to the even cent); otherwise the quotient lies on the side of the
\* half cent on which the double lies of the price.  The double is
\* m / 2^e with m = round(amount * 2^e / 100), 2^52 <= m < 2^53.
\* Variant: the half cent of the decimal quotient goes to the even cent.
TieUpQuarterHalfEven(amount) == (amount \div 4) % 2 = 1

TieUpQuarter(amount) ==
    LET e == 52 - Exponent(amount, 100, 0)
        rem == ((amount % 100) * Pow2Mod100(e)) % 100
    IN  IF rem = 0 THEN (amount \div 4) % 2 = 1
        ELSE rem > 50

\* Variant: the quarter is cut to whole cents, not rounded.
InstallmentAmountTruncated(amount) == amount \div 4

InstallmentAmount(amount) ==
    IF amount % 4 = 2 THEN RoundDiv(amount, 4, TieUpQuarter(amount))
    ELSE RoundDiv(amount, 4, FALSE)

\* Variant: four equal payments, the remainder is not put on the last.
PlanPaymentsEqual(amount) ==
    [i \in 1..INSTALLMENTS |-> RoundDiv(amount, 4, FALSE)]

PlanPayments(amount) ==
    LET installment_amount == InstallmentAmount(amount)
        payments == [i \in 1..(INSTALLMENTS - 1) |-> installment_amount]
    IN  Append(payments, amount - SumSeq(payments))

\* Variant: the first payment is one interval after today.
PlanDatesFromNextInterval(today) ==
    [i \in 1..INSTALLMENTS |-> strftime(today + timedelta_days(7 * INTERVAL_WEEKS * i))]

PlanDates(today) ==
    [i \in 1..INSTALLMENTS |->
        strftime(today + timedelta_days(7 * INTERVAL_WEEKS * (i - 1)))]

BnplPlan(amount, today) ==
    [ total_amount |-> amount,
      installments |-> INSTALLMENTS,
      installment_amount |-> InstallmentAmount(amount),
      payments |-> PlanPayments(amount),
      payment_dates |-> PlanDates(today),
      fee |-> 0,
      total_cost |-> amount ]

\* ----------------------------------------------------------- optimize_cart
RECURSIVE PriceTotal(_, _)
PriceTotal(items, idx) ==
    IF idx = <<>> THEN 0 ELSE items[Head(idx)].price + PriceTotal(items, Tail(idx))

\* Variant: the budget test (c) is made before the limit test (b).
RuleBudgetBeforeLimit(item, finances, essential_total) ==
    IF ~ finances.bnpl_eligible THEN "a"
    ELSE IF essential_total > finances.available_for_spending THEN "c"
    ELSE IF item.price > BNPL_MAX_AMOUNT THEN "b"
    ELSE IF essential_total + item.price > finances.available_for_spending THEN "d"
    ELSE IF item.price <= 4 * finances.safe_bnpl_installment THEN "e"
    ELSE "f"

\* Variant: the installment test (e) is made before the budget test (d).
RuleInstallmentBeforeBudget(item, finances, essential_total) ==
    IF ~ finances.bnpl_eligible THEN "a"
    ELSE IF item.price > BNPL_MAX_AMOUNT THEN "b"
    ELSE IF essential_total > finances.available_for_spending THEN "c"
    ELSE IF item.price <= 4 * finances.safe_bnpl_installment THEN "e"
    ELSE IF essential_total + item.price > finances.available_for_spending THEN "d"
    ELSE "f"

\* Variant: the account's eligibility is not tested.
RuleAnyAccount(item, finances, essential_total) ==
    IF item.price > BNPL_MAX_AMOUNT THEN "b"
    ELSE IF essential_total > finances.available_for_spending THEN "c"
    ELSE IF essential_total + item.price > finances.available_for_spending THEN "d"
    ELSE IF item.price <= 4 * finances.safe_bnpl_installment THEN "e"
    ELSE "f"

\* The branch of the if/elif chain a discretionary item takes.
Rule(item, finances, essential_total) ==
    IF ~ finances.bnpl_eligible THEN "a"
    ELSE IF item.price > BNPL_MAX_AMOUNT THEN "b"
    ELSE IF essential_total > finances.available_for_spending THEN "c"
    ELSE IF essential_total + item.price > finances.available_for_spending THEN "d"
    ELSE IF item.price <= 4 * finances.safe_bnpl_installment THEN "e"
    ELSE "f"

PayNowRec(i, reason) ==
    [ item |-> i, strategy |-> "PAY_NOW", reason |-> reason,
      payment_plan |-> None, installment_amount |-> 0, payment_dates |-> <<>> ]

BnplRec(i, reason, plan) ==
    [ item |-> i, strategy |-> "BNPL", reason |-> reason,
      payment_plan |-> [installments |-> 4, interval_weeks |-> 2],
      installment_amount |-> plan.installment_amount,
      payment_dates |-> plan.payment_dates ]

\* The four lists the loops append to.
NoLists == [recommendations |-> <<>>, warnings |-> <<>>, pay_now_items |-> <<>>, bnpl_items |-> <<>>]

\* Variant: the item is recommended but not appended to pay_now_items.
PayNowNotAppended(acc, rec, warnings) ==
    [ recommendations |-> Append(acc.recommendations, rec),
      warnings |-> acc.warnings \o warnings,
      pay_now_items |-> acc.pay_now_items,
      bnpl_items |-> acc.bnpl_items ]

PayNow(acc, rec, warnings) ==
    [ recommendations |-> Append(acc.recommendations, rec),
      warnings |-> acc.warnings \o warnings,
      pay_now_items |-> Append(acc.pay_now_items, rec.item),
      bnpl_items |-> acc.bnpl_items ]

\* Variant: a deferred item is appended to pay_now_items as well.
BnplAlsoPaidNow(acc, rec, warnings) ==
    [ recommendations |-> Append(acc.recommendations, rec),
      warnings |-> acc.warnings \o warnings,
      pay_now_items |-> Append(acc.pay_now_items, rec.item),
      bnpl_items |-> Append(acc.bnpl_items, rec.item) ]

Bnpl(acc, rec, warnings) ==
    [ recommendations |-> Append(acc.recommendations, rec),
      warnings |-> acc.warnings \o warnings,
      pay_now_items |-> acc.pay_now_items,
      bnpl_items |-> Append(acc.bnpl_items, rec.item) ]

\* for item in essential: ...
RECURSIVE EssentialLoop(_, _, _)
EssentialLoop(items, essential, acc) ==
    IF essential = <<>> THEN acc
    ELSE LET i == Head(essential)
             rec == PayNowRec(i, << "items are essential and should be paid immediately.",
                                    items[i].category >>)
         IN  EssentialLoop(items, Tail(essential), PayNow(acc, rec, <<>>))

\* One pass of the body of: for item in discretionary: ...
DiscretionaryStep(items, i, finances, essential_total, today, acc) ==
    LET item == items[i]
        rule == Rule(item, finances, essential_total)
        plan == BnplPlan(item.price, today)
    IN  CASE rule = "a" ->
               PayNow(acc, PayNowRec(i, << "BNPL not available for your account." >>), <<>>)
          [] rule = "b" ->
               PayNow(acc, PayNowRec(i, << "Item exceeds BNPL limit of", BNPL_MAX_AMOUNT >>),
                      << << "exceeds BNPL maximum amount.", item.name >> >>)
          [] rule = "c" ->
               Bnpl(acc, BnplRec(i, << "Your essential purchases already exceed available funds." >>, plan),
                    << << "Budget is tight! Consider if all items are necessary." >> >>)
          [] rule = "d" ->
               Bnpl(acc, BnplRec(i, << "Paying now would leave you with only",
                                       finances.available_for_spending - essential_total - item.price >>,
                                 plan), <<>>)
          [] rule = "e" ->
               Bnpl(acc, BnplRec(i, << "this fits comfortably in your budget",
                                       plan.installment_amount >>, plan), <<>>)
          [] OTHER ->
               PayNow(acc, PayNowRec(i, << "You have sufficient funds. Paying now avoids future obligations." >>),
                      <<>>)

\* Variant: once an item is deferred, the later ones are paid now.
RECURSIVE DiscretionaryLoopDefersOnce(_, _, _, _, _, _)
DiscretionaryLoopDefersOnce(items, discretionary, finances, essential_total, today, acc) ==
    IF discretionary = <<>> THEN acc
    ELSE DiscretionaryLoopDefersOnce(items, Tail(discretionary), finances, essential_total, today,
             DiscretionaryStep(items, Head(discretionary),
                               [finances EXCEPT !.bnpl_eligible = @ /\ acc.bnpl_items = <<>>],
                               essential_total, today, acc))

\* Variant: each item is tested against the total of what is paid now so far.
RECURSIVE DiscretionaryLoopRunningTotal(_, _, _, _, _, _)
DiscretionaryLoopRunningTotal(items, discretionary, finances, essential_total, today, acc) ==
    IF discretionary = <<>> THEN acc
    ELSE DiscretionaryLoopRunningTotal(items, Tail(discretionary), finances, essential_total, today,
             DiscretionaryStep(items, Head(discretionary), finances,
                               PriceTotal(items, acc.pay_now_items), today, acc))

RECURSIVE DiscretionaryLoop(_, _, _, _, _, _)
DiscretionaryLoop(items, discretionary, finances, essential_total, today, acc) ==
    IF discretionary = <<>> THEN acc
    ELSE DiscretionaryLoop(items, Tail(discretionary), finances, essential_total, today,
             DiscretionaryStep(items, Head(discretionary), finances, essential_total, today, acc))

\* Variant: the discretionary items are gone through first.
LoopsDiscretionaryFirst(items, cls, finances, essential_total, today) ==
    EssentialLoop(items, cls.essential,
                  DiscretionaryLoop(items, cls.discretionary, finances, essential_total, today,
                                    NoLists))

\* The essential items first, then the discretionary ones.
Loops(items, cls, finances, essential_total, today) ==
    DiscretionaryLoop(items, cls.discretionary, finances, essential_total, today,
                      EssentialLoop(items, cls.essential, NoLists))

\* Variant: only an overdraft is warned of.
ProjectedWarningsOverdraftOnly(projected4, projTie) ==
    IF projected4 < 0
    THEN << << "Warning: This purchase would overdraw your account by",
               RoundDiv(0 - projected4, 4, ~ projTie) >> >>
    ELSE <<>>

\* projected is kept in quarters of a cent: balance - (pay_now + bnpl / 4).
ProjectedWarnings(projected4, projTie) ==
    IF projected4 < 0
    THEN << << "Warning: This purchase would overdraw your account by",
               \* abs() mirrors the float, and with it the side of the half cent
               RoundDiv(0 - projected4, 4, ~ projTie) >> >>
    ELSE IF projected4 < 4 * LOW_BALANCE
    THEN << << "Caution: This would leave only", RoundDiv(projected4, 4, projTie) >> >>
    ELSE <<>>

RECURSIVE Names(_, _)
Names(items, idx) ==
    IF idx = <<>> THEN <<>> ELSE << items[Head(idx)].name >> \o Names(items, Tail(idx))

\* The rule-based text of _generate_summary, as the values it prints.
GenerateSummary(user, finances, items, pay_now_items, bnpl_items, pay_now_total, bnpl_total, projected4, projTie, monthTie) ==
    IF bnpl_items = <<>>
    THEN << "Great news!", pay_now_total, RoundDiv(projected4, 4, projTie) >>
    ELSE << "Smart Payment Strategy for", user.name, pay_now_total, Len(pay_now_items),
            bnpl_total, RoundDiv(bnpl_total, 4, monthTie),
            Names(items, SubSeq(bnpl_items, 1, IF Len(bnpl_items) < 3 THEN Len(bnpl_items) ELSE 3)),
            IF finances.paycheck_expected > 0
            THEN << finances.paycheck_expected, finances.paycheck_date >> ELSE <<>> >>

\* Variant: the essential total is that of the essential categories alone.
OptimizeItemsCategoryTotal(user, items, finances, today) ==
    LET cls == classify_items(items)
        essential_total ==
            PriceTotal(items, SelectSeq(cls.essential, LAMBDA i : IsEssentialCategory(items[i])))
        lists == Loops(items, cls, finances, essential_total, today)
        pay_now_total == PriceTotal(items, lists.pay_now_items)
        bnpl_total == PriceTotal(items, lists.bnpl_items)
        monthly_bnpl4 == IF lists.bnpl_items # <<>> THEN bnpl_total ELSE 0
    IN  [ pay_now_items |-> lists.pay_now_items,
          bnpl_items |-> lists.bnpl_items,
          pay_now_total |-> pay_now_total,
          bnpl_total |-> bnpl_total,
          monthly_bnpl4 |-> monthly_bnpl4,
          recommendations |-> lists.recommendations,
          loop_warnings |-> lists.warnings,
          projected4 |-> 4 * finances.current_balance - (4 * pay_now_total + monthly_bnpl4) ]

\* Variant: the first installment is left out of the first payment.
OptimizeItemsPayNowOnly(user, items, finances, today) ==
    LET cls == classify_items(items)
        essential_total == PriceTotal(items, cls.essential)
        lists == Loops(items, cls, finances, essential_total, today)
        pay_now_total == PriceTotal(items, lists.pay_now_items)
        bnpl_total == PriceTotal(items, lists.bnpl_items)
        monthly_bnpl4 == IF lists.bnpl_items # <<>> THEN bnpl_total ELSE 0
    IN  [ pay_now_items |-> lists.pay_now_items,
          bnpl_items |-> lists.bnpl_items,
          pay_now_total |-> pay_now_total,
          bnpl_total |-> bnpl_total,
          monthly_bnpl4 |-> monthly_bnpl4,
          recommendations |-> lists.recommendations,
          loop_warnings |-> lists.warnings,
          projected4 |-> 4 * finances.current_balance - 4 * pay_now_total ]

\* The two loops and the totals, up to the values that are yet to be rounded.
OptimizeItems(user, items, finances, today) ==
    LET cls == classify_items(items)
        essential_total == PriceTotal(items, cls.essential)
        lists == Loops(items, cls, finances, essential_total, today)
        pay_now_total == PriceTotal(items, lists.pay_now_items)
        bnpl_total == PriceTotal(items, lists.bnpl_items)
        \* bnpl_total / 4, unrounded, is bnpl_total quarters of a cent
        monthly_bnpl4 == IF lists.bnpl_items # <<>> THEN bnpl_total ELSE 0
    IN  [ pay_now_items |-> lists.pay_now_items,
          bnpl_items |-> lists.bnpl_items,
          pay_now_total |-> pay_now_total,
          bnpl_total |-> bnpl_total,
          monthly_bnpl4 |-> monthly_bnpl4,
          recommendations |-> lists.recommendations,
          loop_warnings |-> lists.warnings,
          projected4 |-> 4 * finances.current_balance - (4 * pay_now_total + monthly_bnpl4) ]

\* The sum of a single price is that price, and its quarter rounds as in the
\* plan; a longer sum carries its own representation error.
MonthTies(o) ==
    IF Len(o.bnpl_items) = 1 /\ o.bnpl_total % 4 = 2
    THEN {TieUpQuarter(o.bnpl_total)}
    ELSE Ties(o.monthly_bnpl4, 4)

CartOptimization(user, finances, items, o, projTie, monthTie) ==
    [ pay_now_items |-> o.pay_now_items,
      bnpl_items |-> o.bnpl_items,
      pay_now_total |-> o.pay_now_total,
      bnpl_total |-> o.bnpl_total,
      monthly_bnpl_payment |-> RoundDiv(o.monthly_bnpl4, 4, monthTie),
      recommendations |-> o.recommendations,
      summary |-> GenerateSummary(user, finances, items, o.pay_now_items, o.bnpl_items,
                                  o.pay_now_total, o.bnpl_total, o.projected4,
                                  projTie, monthTie),
      warnings |-> o.loop_warnings \o ProjectedWarnings(o.projected4, projTie),
      projected_balance |-> RoundDiv(o.projected4, 4, projTie) ]

\* Variant: the items are classified before the profile is looked up.
optimize_cartClassifiesFirst(user_id) ==
    IF get_user(user_id) = None
    THEN /\ ret' = UserNotFound("optimize_cart", user_id)
         /\ cart_items' = classify_items(cart_items).items
         /\ UNCHANGED << calls, session, users, now, optimization >>
    ELSE \E availTie \in Ties(Available10(get_user(user_id), now), 10),
            safeTie \in Ties(Available10(get_user(user_id), now), 40) :
         LET user == get_user(user_id)
             finances == Finances(user, now, availTie, safeTie)
             o == OptimizeItems(user, cart_items, finances, now)
         IN  \E projTie \in Ties(o.projected4, 4), monthTie \in MonthTies(o) :
             /\ optimization' = CartOptimization(user, finances, cart_items, o, projTie, monthTie)
             /\ cart_items' = classify_items(cart_items).items
             /\ ret' = [ op |-> "optimize_cart", user_id |-> user_id, error |-> "",
                         today |-> now, finances |-> finances, items |-> cart_items,
                         ties |-> << availTie, safeTie, projTie, monthTie >> ]
             /\ UNCHANGED << calls, session, users, now >>

optimize_cart(user_id) ==
    IF get_user(user_id) = None
    THEN \* calculate_available_funds raises before any item is looked at
         /\ ret' = UserNotFound("optimize_cart", user_id)
         /\ UNCHANGED << calls, session, users, now, cart_items, optimization >>
    ELSE \E availTie \in Ties(Available10(get_user(user_id), now), 10),
            safeTie \in Ties(Available10(get_user(user_id), now), 40) :
         LET user == get_user(user_id)
             finances == Finances(user, now, availTie, safeTie)
             o == OptimizeItems(user, cart_items, finances, now)
         IN  \E projTie \in Ties(o.projected4, 4), monthTie \in MonthTies(o) :
             /\ optimization' = CartOptimization(user, finances, cart_items, o, projTie, monthTie)
             /\ cart_items' = classify_items(cart_items).items
             /\ ret' = [ op |-> "optimize_cart", user_id |-> user_id, error |-> "",
                         today |-> now, finances |-> finances, items |-> cart_items,
                         ties |-> << availTie, safeTie, projTie, monthTie >> ]
             /\ UNCHANGED << calls, session, users, now >>

\* ------------------------------------------------------ get_payment_calendar
\* str < str: the first differing component decides, and a proper prefix is
\* the smaller.
RECURSIVE StrLess(_, _)
StrLess(a, b) ==
    IF b = <<>> THEN FALSE
    ELSE IF a = <<>> THEN TRUE
    ELSE IF Head(a) # Head(b) THEN Head(a) < Head(b)
    ELSE StrLess(Tail(a), Tail(b))

\* list.sort(key=date) is stable: an event goes after the events whose date
\* is not greater than its own.
\* Variant: the events stay in the order they were appended in.
InsertByDateAtEnd(sorted, e) == Append(sorted, e)

RECURSIVE InsertByDate(_, _)
InsertByDate(sorted, e) ==
    IF sorted = <<>> THEN << e >>
    ELSE IF StrLess(e.date, Head(sorted).date) THEN << e >> \o sorted
    ELSE << Head(sorted) >> \o InsertByDate(Tail(sorted), e)

RECURSIVE SortByDate(_)
SortByDate(events) ==
    IF events = <<>> THEN <<>>
    ELSE InsertByDate(SortByDate(SubSeq(events, 1, Len(events) - 1)), events[Len(events)])

\* Variant: the first installment falls one interval after today.
CalendarEventsFromNextInterval(opt, items, finances, today) ==
    << [ date |-> strftime(today), type |-> "PAYMENT",
         description |-> << "Cart Purchase - Pay Now Items" >>,
         amount4 |-> 0 - 4 * opt.pay_now_total,
         balance_after |-> finances.current_balance - opt.pay_now_total ] >>
    \o (IF opt.bnpl_items # <<>>
        THEN [i \in 1..4 |->
                [ date |-> strftime(today + timedelta_days(7 * 2 * i)),
                  type |-> "BNPL_PAYMENT",
                  description |-> << "BNPL Payment", i, 4 >>,
                  amount4 |-> 0 - opt.bnpl_total,
                  items |-> Names(items, opt.bnpl_items) ]]
        ELSE <<>>)
    \o [k \in 1..Len(finances.upcoming_bills) |->
            [ date |-> finances.upcoming_bills[k].due_date, type |-> "BILL",
              description |-> << finances.upcoming_bills[k].name >>,
              amount4 |-> 0 - 4 * finances.upcoming_bills[k].amount ]]
    \o (IF finances.paycheck_date # <<>>
        THEN << [ date |-> finances.paycheck_date, type |-> "INCOME",
                  description |-> << "Paycheck" >>,
                  amount4 |-> 4 * finances.paycheck_expected ] >>
        ELSE <<>>)

\* The events in the order the function appends them.  amount4 is the
\* amount in quarters of a cent: a BNPL payment is bnpl_total / 4, unrounded.
CalendarEvents(opt, items, finances, today) ==
    << [ date |-> strftime(today), type |-> "PAYMENT",
         description |-> << "Cart Purchase - Pay Now Items" >>,
         amount4 |-> 0 - 4 * opt.pay_now_total,
         balance_after |-> finances.current_balance - opt.pay_now_total ] >>
    \o (IF opt.bnpl_items # <<>>
        THEN [i \in 1..4 |->
                [ date |-> strftime(today + timedelta_days(7 * 2 * (i - 1))),
                  type |-> "BNPL_PAYMENT",
                  description |-> << "BNPL Payment", i, 4 >>,
                  amount4 |-> 0 - opt.bnpl_total,
                  items |-> Names(items, opt.bnpl_items) ]]
        ELSE <<>>)
    \o [k \in 1..Len(finances.upcoming_bills) |->
            [ date |-> finances.upcoming_bills[k].due_date, type |-> "BILL",
              description |-> << finances.upcoming_bills[k].name >>,
              amount4 |-> 0 - 4 * finances.upcoming_bills[k].amount ]]
    \o (IF finances.paycheck_date # <<>>
        THEN << [ date |-> finances.paycheck_date, type |-> "INCOME",
                  description |-> << "Paycheck" >>,
                  amount4 |-> 4 * finances.paycheck_expected ] >>
        ELSE <<>>)

PaymentCalendar(opt, items, finances, today) ==
    SortByDate(CalendarEvents(opt, items, finances, today))

\* The caller passes the result it holds.
get_payment_calendar(user_id) ==
    /\ optimization # None
    /\ IF get_user(user_id) = None
       THEN ret' = UserNotFound("get_payment_calendar", user_id)
       ELSE \E availTie \in Ties(Available10(get_user(user_id), now), 10),
               safeTie \in Ties(Available10(get_user(user_id), now), 40) :
            ret' = [ op |-> "get_payment_calendar", user_id |-> user_id, error |-> "",
                     today |-> now,
                     value |-> PaymentCalendar(optimization, cart_items,
                                    Finances(get_user(user_id), now, availTie, safeTie), now) ]
    /\ UNCHANGED << calls, session, users, now, cart_items, optimization >>

calculate_bnpl_plan(amount) ==
    /\ ret' = [ op |-> "calculate_bnpl_plan", amount |-> amount, error |-> "",
                today |-> now, value |-> BnplPlan(amount, now) ]
    /\ UNCHANGED << calls, session, users, now, cart_items, optimization >>

Tick ==
    /\ now < MaxTick
    /\ now' = now + 1
    /\ UNCHANGED << calls, session, users, cart_items, optimization, ret >>

Init ==
    /\ users = UserDb
    /\ now = 0
    /\ \E items_data \in Carts : cart_items = create_cart_items(items_data)
    /\ optimization = None
    /\ ret = None
    /\ calls = <<>>
    /\ session = None

Next ==
    \/ Tick
    \/ \E user_id \in UserIds : calculate_available_funds(user_id)
    \/ call_classify_items
    \/ \E user_id \in UserIds : optimize_cart(user_id)
    \/ \E user_id \in UserIds : get_payment_calendar(user_id)

Spec == Init /\ [][Next]_vars

\* The installment planner alone, over the amounts a caller may finance.
PlanAmounts == 0..MaxAmount \cup {14999, 200000}

PlanInit ==
    /\ users = UserDb
    /\ now = 0
    /\ cart_items = <<>>
    /\ optimization = None
    /\ ret = None
    /\ calls = <<>>
    /\ session = None

PlanNext ==
    \/ Tick
    \/ \E amount \in PlanAmounts : calculate_bnpl_plan(amount)

PlanSpec == PlanInit /\ [][PlanNext]_vars

\* The snapshot alone, over the profiles a store may hold: a balance below,
\* at and above zero, bills before, at and after each end of the window and
\* beyond the balance, and a paycheck or none.
Balances == {-500, 0, 5, 15, 8005, 50000}

BillPool ==
    << [name |-> "Overdue",  amount |-> 1,     due_date |-> <<-1>>],
       [name |-> "Today",    amount |-> 2,     due_date |-> <<0>>],
       [name |-> "Tomorrow", amount |-> 4,     due_date |-> <<1>>],
       [name |-> "Mortgage", amount |-> 60000, due_date |-> <<10>>],
       [name |-> "Last",     amount |-> 8,     due_date |-> <<DAYS_AHEAD>>],
       [name |-> "Beyond",   amount |-> 16,    due_date |-> <<DAYS_AHEAD + 1>>] >>

\* The bills of the pool at the positions of S, from i on, in pool order.
RECURSIVE BillsAt(_, _)
BillsAt(S, i) ==
    IF i > Len(BillPool) THEN <<>>
    ELSE (IF i \in S THEN << BillPool[i] >> ELSE <<>>) \o BillsAt(S, i + 1)

Paychecks == {None, [amount |-> 120000, date |-> <<0>>], [amount |-> 120000, date |-> <<14>>]}

Profiles ==
    { [ id |-> "user_001", name |-> "Alex", bank_balance |-> balance,
        upcoming_bills |-> BillsAt(S, 1), next_paycheck |-> paycheck,
        bnpl_eligible |-> TRUE ] :
      balance \in Balances, S \in SUBSET DOMAIN BillPool, paycheck \in Paychecks }

FundsInit ==
    /\ \E profile \in Profiles : users = [user_id \in {"user_001"} |-> profile]
    /\ now = 0
    /\ cart_items = <<>>
    /\ optimization = None
    /\ ret = None
    /\ calls = <<>>
    /\ session = None

FundsNext ==
    \/ Tick
    \/ \E user_id \in UserIds : calculate_available_funds(user_id)

FundsSpec == FundsInit /\ [][FundsNext]_vars

\* ------------------------------------------- calls in progress at once
\* Two callers use the one agent at the same time, each with a user id and
\* a cart of its own; a caller calls optimize_cart and hands the result to
\* get_payment_calendar.  A call advances by the statements between two
\* reads of what other calls could touch: the store, the clock, its items.
Callers == {1, 2}

CallerUser == [c \in Callers |-> IF c = 1 THEN "user_001" ELSE "user_002"]

CallPool ==
    { [name |-> "Diapers", price |-> 2499,  category |-> "Baby & Kids", bnpl_eligible |-> TRUE],
      [name |-> "AirPods", price |-> 14999, category |-> "Electronics", bnpl_eligible |-> TRUE],
      [name |-> "Insulin", price |-> 16000, category |-> "Medicine",    bnpl_eligible |-> TRUE] }

MaxCallCart == 2

CallCarts == UNION { [1..n -> CallPool] : n \in 0..MaxCallCart }

NewCall(user_id, items) ==
    [ op |-> "optimize_cart", user_id |-> user_id, pc |-> "funds",
      args_items |-> items, items |-> items,
      finances |-> None, today |-> -1, ties |-> <<>>,
      cls |-> None, lists |-> None, plan_today |-> -1, result |-> None,
      cal_finances |-> None, cal_today |-> -1, calendar |-> None ]

\* pay_now_total, bnpl_total, monthly_bnpl and projected of the lists made.
Totals(items, lists, finances) ==
    LET pay_now_total == PriceTotal(items, lists.pay_now_items)
        bnpl_total == PriceTotal(items, lists.bnpl_items)
        monthly_bnpl4 == IF lists.bnpl_items # <<>> THEN bnpl_total ELSE 0
    IN  [ pay_now_items |-> lists.pay_now_items,
          bnpl_items |-> lists.bnpl_items,
          pay_now_total |-> pay_now_total,
          bnpl_total |-> bnpl_total,
          monthly_bnpl4 |-> monthly_bnpl4,
          recommendations |-> lists.recommendations,
          loop_warnings |-> lists.warnings,
          projected4 |-> 4 * finances.current_balance - (4 * pay_now_total + monthly_bnpl4) ]

\* finances = self.calculate_available_funds(user_id); user = self.get_user(user_id)
CallFunds(c) ==
    /\ calls[c].pc = "funds"
    /\ IF get_user(calls[c].user_id) = None
       THEN calls' = [calls EXCEPT ![c].pc = "raised"]
       ELSE \E availTie \in Ties(Available10(get_user(calls[c].user_id), now), 10),
               safeTie \in Ties(Available10(get_user(calls[c].user_id), now), 40) :
            calls' = [calls EXCEPT
                        ![c].finances = Finances(get_user(calls[c].user_id), now, availTie, safeTie),
                        ![c].today = now,
                        ![c].ties = << availTie, safeTie >>,
                        ![c].pc = "classify"]
    /\ UNCHANGED << users, now, cart_items, optimization, ret, session >>

\* Variant: the flags are written into the items of every call in progress.
CallClassifyAllCarts(c) ==
    /\ calls[c].pc = "classify"
    /\ calls' = [d \in DOMAIN calls |->
                    IF d = c
                    THEN [calls[c] EXCEPT
                            !.cls = [ essential |-> classify_items(calls[c].items).essential,
                                      discretionary |-> classify_items(calls[c].items).discretionary ],
                            !.items = classify_items(calls[c].items).items,
                            !.pc = "loops"]
                    ELSE [calls[d] EXCEPT !.items = classify_items(calls[d].items).items]]
    /\ UNCHANGED << users, now, cart_items, optimization, ret, session >>

\* essential, discretionary = self.classify_items(items)
CallClassify(c) ==
    /\ calls[c].pc = "classify"
    /\ calls' = [calls EXCEPT
                    ![c].cls = [ essential |-> classify_items(calls[c].items).essential,
                                 discretionary |-> classify_items(calls[c].items).discretionary ],
                    ![c].items = classify_items(calls[c].items).items,
                    ![c].pc = "loops"]
    /\ UNCHANGED << users, now, cart_items, optimization, ret, session >>

\* essential_total and the two loops
CallLoops(c) ==
    /\ calls[c].pc = "loops"
    /\ calls' = [calls EXCEPT
                    ![c].lists = Loops(calls[c].items, calls[c].cls, calls[c].finances,
                                       PriceTotal(calls[c].items, calls[c].cls.essential), now),
                    ![c].plan_today = now,
                    ![c].pc = "totals"]
    /\ UNCHANGED << users, now, cart_items, optimization, ret, session >>

\* the totals, the projected balance, the summary and the result; the caller
\* then passes the result to get_payment_calendar
CallTotals(c) ==
    /\ calls[c].pc = "totals"
    /\ LET o == Totals(calls[c].items, calls[c].lists, calls[c].finances)
       IN  \E projTie \in Ties(o.projected4, 4), monthTie \in MonthTies(o) :
           calls' = [calls EXCEPT
                       ![c].result = CartOptimization(get_user(calls[c].user_id), calls[c].finances,
                                                      calls[c].items, o, projTie, monthTie),
                       ![c].ties = calls[c].ties \o << projTie, monthTie >>,
                       ![c].op = "get_payment_calendar",
                       ![c].pc = "cal_funds"]
    /\ UNCHANGED << users, now, cart_items, optimization, ret, session >>

\* user = self.get_user(user_id); finances = self.calculate_available_funds(user_id)
CallCalendarFunds(c) ==
    /\ calls[c].pc = "cal_funds"
    /\ \E availTie \in Ties(Available10(get_user(calls[c].user_id), now), 10),
          safeTie \in Ties(Available10(get_user(calls[c].user_id), now), 40) :
       calls' = [calls EXCEPT
                   ![c].cal_finances = Finances(get_user(calls[c].user_id), now, availTie, safeTie),
                   ![c].pc = "cal_events"]
    /\ UNCHANGED << users, now, cart_items, optimization, ret, session >>

\* the events and their sort
CallCalendarEvents(c) ==
    /\ calls[c].pc = "cal_events"
    /\ calls' = [calls EXCEPT
                    ![c].calendar = PaymentCalendar(calls[c].result, calls[c].items,
                                                    calls[c].cal_finances, now),
                    ![c].cal_today = now,
                    ![c].pc = "done"]
    /\ UNCHANGED << users, now, cart_items, optimization, ret, session >>

ConcurrentInit ==
    /\ users = UserDb
    /\ now = 0
    /\ cart_items = <<>>
    /\ optimization = None
    /\ ret = None
    /\ \E carts \in [Callers -> CallCarts] :
          calls = [c \in Callers |-> NewCall(CallerUser[c], create_cart_items(carts[c]))]
    /\ session = None

ConcurrentNext ==
    \/ Tick
    \/ \E c \in Callers : CallFunds(c)
    \/ \E c \in Callers : CallClassify(c)
    \/ \E c \in Callers : CallLoops(c)
    \/ \E c \in Callers : CallTotals(c)
    \/ \E c \in Callers : CallCalendarFunds(c)
    \/ \E c \in Callers : CallCalendarEvents(c)

ConcurrentSpec == ConcurrentInit /\ [][ConcurrentNext]_vars

\* ------------------------------------------- a result kept over days
\* The caller keeps the result and asks for its calendar later, on the day
\* of the optimization or on a day after it.
MaxDay == 1

NextDay ==
    /\ now \div TicksPerDay < MaxDay
    /\ now' = now + TicksPerDay
    /\ UNCHANGED << calls, session, users, cart_items, optimization, ret >>

LaterInit ==
    /\ users = UserDb
    /\ now = 0
    /\ \E items_data \in CallCarts : cart_items = create_cart_items(items_data)
    /\ optimization = None
    /\ ret = None
    /\ calls = <<>>
    /\ session = None

LaterNext ==
    \/ Tick
    \/ NextDay
    \/ \E user_id \in UserIds : optimize_cart(user_id)
    \/ \E user_id \in UserIds : get_payment_calendar(user_id)

LaterSpec == LaterInit /\ [][LaterNext]_vars

\* ------------------------------------------------------ the application
\* One browser session of app.py.  session holds the selection of the user
\* box and st.session_state: manual_cart, and with cart_items and
\* optimization the keys 'cart_items' and 'optimization_result'.  Every
\* widget event runs the script once from top to bottom, so every action
\* ends with the render of that run.  result_user and result_items are the
\* user the stored result was computed for and the item objects it holds.
DefaultUser == "user_002"

\* Tab 3 rebuilds 'cart_items' from a manual cart that is not empty and
\* leaves the key alone otherwise.
AppCart(manual_cart, cart) ==
    IF manual_cart # <<>> THEN create_cart_items(manual_cart) ELSE cart

\* The optimization section: a stored result is shown, with a calendar
\* built for the selected user, whenever the session has a cart.
AppDisplay(selected_user_id, cart, result, result_items, availTie, safeTie) ==
    IF cart # <<>> /\ result # None
    THEN [ result |-> result,
           calendar |-> PaymentCalendar(result, result_items,
                            Finances(get_user(selected_user_id), now, availTie, safeTie),
                            now) ]
    ELSE None

AppRun(selected_user_id, manual_cart, cart) ==
    \E availTie \in Ties(Available10(get_user(selected_user_id), now), 10),
       safeTie \in Ties(Available10(get_user(selected_user_id), now), 40) :
        /\ cart_items' = cart
        /\ session' = [ session EXCEPT
                            !.selected_user_id = selected_user_id,
                            !.manual_cart = manual_cart,
                            !.display = AppDisplay(selected_user_id, cart, optimization,
                                            session.result_items, availTie, safeTie) ]
        /\ UNCHANGED << calls, users, now, optimization, ret >>

\* The box offers the users of list_users().
AppSelectUser(user_id) ==
    /\ user_id \in DOMAIN users
    /\ user_id # session.selected_user_id
    /\ AppRun(user_id, session.manual_cart, AppCart(session.manual_cart, cart_items))

AppAddItem(item) ==
    /\ Len(session.manual_cart) < MaxCallCart
    /\ LET manual_cart == Append(session.manual_cart, item)
       IN  AppRun(session.selected_user_id, manual_cart, AppCart(manual_cart, cart_items))

AppDeleteItem(i) ==
    /\ i \in DOMAIN session.manual_cart
    /\ LET manual_cart == [k \in 1..(Len(session.manual_cart) - 1) |->
                              IF k < i THEN session.manual_cart[k]
                                       ELSE session.manual_cart[k + 1]]
       IN  AppRun(session.selected_user_id, manual_cart, AppCart(manual_cart, cart_items))

\* A detection or a receipt sets 'cart_items'; tab 3 runs after it.
AppUpload(items_data) ==
    /\ items_data # <<>>
    /\ AppRun(session.selected_user_id, session.manual_cart,
              AppCart(session.manual_cart, create_cart_items(items_data)))

AppOptimize ==
    LET selected_user_id == session.selected_user_id
        cart == AppCart(session.manual_cart, cart_items)
        user == get_user(selected_user_id)
    IN  /\ cart # <<>>
        /\ \E availTie \in Ties(Available10(user, now), 10),
              safeTie \in Ties(Available10(user, now), 40) :
            LET finances == Finances(user, now, availTie, safeTie)
                o == OptimizeItems(user, cart, finances, now)
                classified == classify_items(cart).items
            IN  \E projTie \in Ties(o.projected4, 4), monthTie \in MonthTies(o),
                   calAvailTie \in Ties(Available10(user, now), 10),
                   calSafeTie \in Ties(Available10(user, now), 40) :
                LET result == CartOptimization(user, finances, cart, o, projTie, monthTie)
                IN  /\ optimization' = result
                    /\ cart_items' = classified
                    /\ session' = [ session EXCEPT
                                        !.result_user = selected_user_id,
                                        !.result_items = classified,
                                        !.display = AppDisplay(selected_user_id, classified,
                                                        result, classified,
                                                        calAvailTie, calSafeTie) ]
                    /\ UNCHANGED << calls, users, now, ret >>

AppInit ==
    /\ users = UserDb
    /\ now = 0
    /\ cart_items = <<>>
    /\ optimization = None
    /\ ret = None
    /\ calls = <<>>
    /\ session = [ selected_user_id |-> DefaultUser, manual_cart |-> <<>>,
                   result_user |-> "", result_items |-> <<>>, display |-> None ]

AppNext ==
    \/ \E user_id \in UserIds : AppSelectUser(user_id)
    \/ \E item \in CallPool : AppAddItem(item)
    \/ \E i \in 1..MaxCallCart : AppDeleteItem(i)
    \/ \E items_data \in CallCarts : AppUpload(items_data)
    \/ AppOptimize

AppSpec == AppInit /\ [][AppNext]_vars

\* ------------------------------------------- the narrative generator
\* What becomes of self.llm_chain.run in _generate_summary: there is no
\* generator (use_llm is false or the chain was not made), it returns a
\* text, or it raises.
LlmOutcomes == {"none", "answers", "raises"}

\* Variant: no fallback, the text is whatever the attempt left.
generate_summaryNoFallback(llm, rule_based) ==
    IF llm = "none" THEN rule_based
    ELSE IF llm = "answers" THEN << "LLM text" >>
    ELSE << "LLM generation failed" >>

\* if self.use_llm and self.llm_chain: try: return result.strip()
\* except Exception: print(...); then the rule-based summary
generate_summary(llm, rule_based) ==
    IF llm = "answers" THEN << "LLM text" >> ELSE rule_based

\* optimize_cart of an agent whose generator does llm.
optimize_cart_llm(user_id, llm) ==
    IF get_user(user_id) = None
    THEN /\ ret' = UserNotFound("optimize_cart", user_id)
         /\ UNCHANGED << calls, session, users, now, cart_items, optimization >>
    ELSE \E availTie \in Ties(Available10(get_user(user_id), now), 10),
            safeTie \in Ties(Available10(get_user(user_id), now), 40) :
         LET user == get_user(user_id)
             finances == Finances(user, now, availTie, safeTie)
             o == OptimizeItems(user, cart_items, finances, now)
         IN  \E projTie \in Ties(o.projected4, 4), monthTie \in MonthTies(o) :
             /\ optimization' =
                   [ CartOptimization(user, finances, cart_items, o, projTie, monthTie)
                       EXCEPT !.summary = generate_summary(llm, @) ]
             /\ cart_items' = classify_items(cart_items).items
             /\ ret' = [ op |-> "optimize_cart", user_id |-> user_id, error |-> "",
                         today |-> now, finances |-> finances, items |-> cart_items,
                         ties |-> << availTie, safeTie, projTie, monthTie >>, llm |-> llm ]
             /\ UNCHANGED << calls, session, users, now >>

NarrativeInit ==
    /\ users = UserDb
    /\ now = 0
    /\ \E items_data \in CallCarts : cart_items = create_cart_items(items_data)
    /\ optimization = None
    /\ ret = None
    /\ calls = <<>>
    /\ session = None

NarrativeNext ==
    \/ Tick
    \/ \E user_id \in UserIds, llm \in LlmOutcomes : optimize_cart_llm(user_id, llm)

NarrativeSpec == NarrativeInit /\ [][NarrativeNext]_vars

\* =================================================================== claims
\* A successful optimize_cart is the last call: optimization is its result,
\* ret.finances the snapshot it used and ret.today its clock.
Optimized == ret # None /\ ret.op = "optimize_cart" /\ ret.error = ""

Positions == DOMAIN cart_items

Count(seq, x) == Cardinality({k \in DOMAIN seq : seq[k] = x})

CartTotal == SumSeq([i \in Positions |-> cart_items[i].price])

\* The positions of the cart that are in S, from i on, in cart order.
RECURSIVE PositionsIn(_, _)
PositionsIn(i, S) ==
    IF i > Len(cart_items) THEN <<>>
    ELSE (IF i \in S THEN << i >> ELSE <<>>) \o PositionsIn(i + 1, S)

CandidateAt(i) == IsCandidate(cart_items[i])
NotCandidateAt(i) == ~ IsCandidate(cart_items[i])

\* C1: the pay-now total and the deferred total of a result add up to the sum
\* of the prices of all the items of the cart, to the cent.
C1_TotalsAddUp ==
    optimization # None =>
        optimization.pay_now_total + optimization.bnpl_total = CartTotal

C1_Witness ==
    /\ optimization # None
    /\ Len(cart_items) = MaxCart
    /\ optimization.pay_now_items # <<>>
    /\ optimization.bnpl_items # <<>>
    /\ \E i \in Positions : cart_items[i].price < 0

\* C2: every item of the cart is in exactly one of pay_now_items and
\* bnpl_items, exactly once, and is the subject of exactly one recommendation,
\* whose strategy is PAY_NOW iff the item is in pay_now_items.
C2_NoItemDroppedOrDuplicated ==
    optimization # None =>
        /\ \A i \in Positions :
              /\ Count(optimization.pay_now_items, i) + Count(optimization.bnpl_items, i) = 1
              /\ Cardinality({k \in DOMAIN optimization.recommendations :
                                 optimization.recommendations[k].item = i}) = 1
        /\ Len(optimization.pay_now_items) + Len(optimization.bnpl_items) = Len(cart_items)
        /\ Len(optimization.recommendations) = Len(cart_items)
        /\ \A k \in DOMAIN optimization.recommendations :
              LET rec == optimization.recommendations[k]
              IN  /\ rec.strategy \in {"PAY_NOW", "BNPL"}
                  /\ rec.strategy = "PAY_NOW" <=> Count(optimization.pay_now_items, rec.item) = 1

C2_Witness ==
    /\ optimization # None
    /\ Len(cart_items) = MaxCart
    /\ Len(optimization.bnpl_items) >= 2
    /\ optimization.pay_now_items # <<>>
    /\ \E i, j \in Positions : i # j /\ cart_items[i] = cart_items[j]

\* C3: for every amount of whole cents >= 0 the plan has exactly 4 payments;
\* the first 3 are the base, a quarter of the amount rounded to the nearest
\* cent, the last is the amount less three times the base, and the four add
\* up to the amount.
PlanMade == ret # None /\ ret.op = "calculate_bnpl_plan"

C3_PaymentsSumToAmount ==
    PlanMade =>
        LET payments == ret.value.payments
            base == ret.value.installment_amount
        IN  /\ Len(payments) = 4
            /\ \A k \in 1..3 : payments[k] = base
            /\ 4 * base - ret.amount \in -2..2
            /\ payments[4] = ret.amount - 3 * base
            /\ SumSeq(payments) = ret.amount

C3_Witness ==
    /\ PlanMade
    /\ ret.amount = 14999
    /\ ret.value.payments = << 3750, 3750, 3750, 3749 >>

\* C4: a plan has exactly 4 payment dates, the i-th (i = 0..3) the date of
\* today + 2i weeks: the first is today's date and consecutive dates are
\* exactly 14 days apart, in increasing order.
C4_DatesTwoWeeksApart ==
    PlanMade =>
        LET dates == ret.value.payment_dates
        IN  /\ Len(dates) = 4
            /\ \A k \in 1..4 : dates[k] = << (ret.today \div TicksPerDay) + 14 * (k - 1) >>
            /\ dates[1] = strftime(ret.today)
            /\ \A k \in 1..3 : dates[k + 1][1] - dates[k][1] = 14

C4_Witness ==
    /\ PlanMade
    /\ ret.today % TicksPerDay # 0
    /\ ret.value.payment_dates = << <<0>>, <<14>>, <<28>>, <<42>> >>

\* C5: every item whose category is essential is assigned PAY_NOW and is in
\* pay_now_items, whatever its price, its own eligibility, the account's
\* eligibility and the funds.
C5_EssentialIsPayNow ==
    optimization # None =>
        \A k \in DOMAIN optimization.recommendations :
            LET rec == optimization.recommendations[k]
            IN  cart_items[rec.item].category \in ESSENTIAL_CATEGORIES =>
                    /\ rec.strategy = "PAY_NOW"
                    /\ Count(optimization.pay_now_items, rec.item) = 1
                    /\ Count(optimization.bnpl_items, rec.item) = 0

\* An essential item in the price range of deferral, beside a deferred item,
\* for an eligible account.
C5_Witness ==
    /\ Optimized
    /\ ret.finances.bnpl_eligible
    /\ optimization.bnpl_items # <<>>
    /\ \E i \in Positions :
          /\ cart_items[i].category = "Medicine"
          /\ cart_items[i].price >= BNPL_MIN_AMOUNT
          /\ cart_items[i].bnpl_eligible
          /\ Count(optimization.pay_now_items, i) = 1

\* C6, as claimed: an item priced above $2000 is PAY_NOW and the warnings name
\* it, for every cart and every profile.
ExceedsWarning(i) == << "exceeds BNPL maximum amount.", cart_items[i].name >>

C6_Original ==
    optimization # None =>
        \A i \in Positions :
            cart_items[i].price > BNPL_MAX_AMOUNT =>
                /\ Count(optimization.pay_now_items, i) = 1
                /\ Count(optimization.warnings, ExceedsWarning(i)) >= 1

\* C6, amended: an item priced above $2000 is always PAY_NOW; the warnings
\* name it only when the account is eligible and the item is a deferral
\* candidate (not essential, itself eligible): the warnings that name an item
\* are those of the over-limit candidates, in cart order, for an eligible
\* account, and none for an account that is not eligible.
OverLimitCandidateAt(i) == CandidateAt(i) /\ cart_items[i].price > BNPL_MAX_AMOUNT

RECURSIVE ExceedsWarnings(_)
ExceedsWarnings(warnings) ==
    IF warnings = <<>> THEN <<>>
    ELSE (IF Head(warnings)[1] = "exceeds BNPL maximum amount." THEN << Head(warnings) >> ELSE <<>>)
         \o ExceedsWarnings(Tail(warnings))

C6_OverLimitIsPayNow ==
    Optimized =>
        /\ \A i \in Positions :
              cart_items[i].price > BNPL_MAX_AMOUNT =>
                  /\ Count(optimization.pay_now_items, i) = 1
                  /\ Count(optimization.bnpl_items, i) = 0
        /\ ExceedsWarnings(optimization.warnings) =
              IF ret.finances.bnpl_eligible
              THEN LET over == PositionsIn(1, {i \in Positions : OverLimitCandidateAt(i)})
                   IN  [k \in DOMAIN over |-> ExceedsWarning(over[k])]
              ELSE <<>>

\* An eligible account whose essential total exceeds what it can spend, and
\* an over-limit candidate: paid now, and named.
C6_Witness ==
    /\ Optimized
    /\ ret.finances.bnpl_eligible
    /\ optimization.bnpl_items # <<>>
    /\ \E i \in Positions :
          /\ OverLimitCandidateAt(i)
          /\ Count(optimization.pay_now_items, i) = 1
          /\ Count(optimization.warnings, ExceedsWarning(i)) = 1

\* C7: the outcome for a deferral candidate is that of the first of the
\* rules a..f whose guard holds: a (account not eligible), b (price > $2000),
\* c (essential total > available), d (essential total + price > available),
\* e (price / 4 <= safe ceiling), f (otherwise).  Exactly one recommendation
\* is made for the candidate, and a later rule never overrides an earlier one.
EssentialTotal == SumSeq([k \in DOMAIN PositionsIn(1, {i \in Positions : NotCandidateAt(i)}) |->
                            cart_items[PositionsIn(1, {i \in Positions : NotCandidateAt(i)})[k]].price])

RecsOf(i) == {k \in DOMAIN optimization.recommendations : optimization.recommendations[k].item = i}

C7_FirstMatchingRuleWins ==
    Optimized =>
        \A i \in Positions :
            CandidateAt(i) =>
                /\ Cardinality(RecsOf(i)) = 1
                /\ \A k \in RecsOf(i) :
                      LET rec == optimization.recommendations[k]
                          price == cart_items[i].price
                          available == ret.finances.available_for_spending
                          ga == ~ ret.finances.bnpl_eligible
                          gb == price > BNPL_MAX_AMOUNT
                          gc == EssentialTotal > available
                          gd == EssentialTotal + price > available
                          ge == price <= 4 * ret.finances.safe_bnpl_installment
                          text == rec.reason[1]
                      IN  /\ text = "BNPL not available for your account." <=> ga
                          /\ text = "Item exceeds BNPL limit of" <=> ~ ga /\ gb
                          /\ text = "Your essential purchases already exceed available funds."
                                <=> ~ ga /\ ~ gb /\ gc
                          /\ text = "Paying now would leave you with only"
                                <=> ~ ga /\ ~ gb /\ ~ gc /\ gd
                          /\ text = "this fits comfortably in your budget"
                                <=> ~ ga /\ ~ gb /\ ~ gc /\ ~ gd /\ ge
                          /\ text = "You have sufficient funds. Paying now avoids future obligations."
                                <=> ~ ga /\ ~ gb /\ ~ gc /\ ~ gd /\ ~ ge
                          /\ rec.strategy = "BNPL" <=> ~ ga /\ ~ gb /\ (gc \/ gd \/ ge)
                          /\ rec.strategy = "PAY_NOW" <=> ga \/ gb \/ (~ gc /\ ~ gd /\ ~ ge)

\* An eligible account, an essential total above what it can spend and a
\* candidate above $2000: rule b decides, not rule c.
C7_Witness ==
    /\ Optimized
    /\ ret.finances.bnpl_eligible
    /\ EssentialTotal > ret.finances.available_for_spending
    /\ \E i \in Positions :
          /\ OverLimitCandidateAt(i)
          /\ \E k \in RecsOf(i) :
                /\ optimization.recommendations[k].strategy = "PAY_NOW"
                /\ optimization.recommendations[k].reason[1] = "Item exceeds BNPL limit of"

\* C8, as claimed: the i-th recommendation is about the i-th item of the cart.
RecItems == [k \in DOMAIN optimization.recommendations |-> optimization.recommendations[k].item]

C8_Original ==
    optimization # None =>
        /\ Len(optimization.recommendations) = Len(cart_items)
        /\ \A k \in DOMAIN optimization.recommendations :
              optimization.recommendations[k].item = k

\* C8, amended: there is one recommendation per item of the cart; the
\* recommendations of the items the classifier puts in the pay-now partition
\* come first, in cart order, then those of the deferral candidates, in cart
\* order.
C8_PayNowPartitionFirst ==
    optimization # None =>
        /\ Len(optimization.recommendations) = Len(cart_items)
        /\ RecItems = PositionsIn(1, {i \in Positions : NotCandidateAt(i)})
                      \o PositionsIn(1, {i \in Positions : CandidateAt(i)})

C8_Witness ==
    /\ optimization # None
    /\ Len(cart_items) = MaxCart
    /\ CandidateAt(1) /\ NotCandidateAt(2) /\ CandidateAt(3)
    /\ RecItems = << 2, 1, 3 >>

\* C9, as claimed: for every profile in the store an empty cart gives empty
\* partitions, zero totals, no recommendations and no warnings.
C9_Original ==
    (Optimized /\ cart_items = <<>>) =>
        /\ optimization.pay_now_items = <<>> /\ optimization.bnpl_items = <<>>
        /\ optimization.pay_now_total = 0 /\ optimization.bnpl_total = 0
        /\ optimization.monthly_bnpl_payment = 0
        /\ optimization.recommendations = <<>>
        /\ optimization.warnings = <<>>

\* C9, amended: for every profile in the store an empty cart gives empty
\* partitions, zero totals and no recommendations; the warnings are empty
\* when the balance is at least $100, the low-balance caution alone when the
\* balance is from $0 up to $100, and the overdraft warning alone when the
\* balance is negative.
C9_EmptyCart ==
    (Optimized /\ cart_items = <<>>) =>
        LET balance == users[ret.user_id].bank_balance
        IN  /\ optimization.pay_now_items = <<>> /\ optimization.bnpl_items = <<>>
            /\ optimization.pay_now_total = 0 /\ optimization.bnpl_total = 0
            /\ optimization.monthly_bnpl_payment = 0
            /\ optimization.recommendations = <<>>
            /\ optimization.projected_balance = balance
            /\ optimization.warnings =
                  IF balance < 0
                  THEN << << "Warning: This purchase would overdraw your account by", 0 - balance >> >>
                  ELSE IF balance < LOW_BALANCE
                  THEN << << "Caution: This would leave only", balance >> >>
                  ELSE <<>>

C9_Witness ==
    /\ Optimized
    /\ cart_items = <<>>
    /\ users[ret.user_id].bank_balance < LOW_BALANCE
    /\ Len(optimization.warnings) = 1

\* C10: a call of calculate_available_funds, optimize_cart or
\* get_payment_calendar with a user id that is not in the store fails with the
\* user-not-found error and returns nothing; the result the caller holds and
\* every item of the cart, its is_essential flag included, are as before.
C10_UnknownUserFails ==
    [][ (/\ ret' # None
         /\ "user_id" \in DOMAIN ret'
         /\ ret'.user_id \notin DOMAIN users
         /\ ret' # ret)
        => /\ ret'.error = "User not found"
           /\ DOMAIN ret' = {"op", "user_id", "error"}
           /\ ret'.op \in {"calculate_available_funds", "optimize_cart", "get_payment_calendar"}
           /\ optimization' = optimization
           /\ cart_items' = cart_items ]_vars

\* optimize_cart has failed on a cart whose essential item still carries the
\* flag it was made with.
C10_Witness ==
    /\ ret # None
    /\ ret.op = "optimize_cart"
    /\ ret.error = "User not found"
    /\ ret.user_id \notin DOMAIN users
    /\ \E i \in Positions :
          IsEssentialCategory(cart_items[i]) /\ ~ cart_items[i].is_essential

\* C11, as claimed: an item with a negative price is rejected on its own: it
\* is in neither pay_now_items nor bnpl_items, its price is in neither total,
\* a warning names it, and the other items of the cart are still optimized.
NegativeAt(i) == cart_items[i].price < 0

NamesItem(warning, i) == \E k \in DOMAIN warning : warning[k] = cart_items[i].name

C11_NegativePriceRejected ==
    optimization # None =>
        /\ \A i \in Positions :
              NegativeAt(i) =>
                  /\ Count(optimization.pay_now_items, i) = 0
                  /\ Count(optimization.bnpl_items, i) = 0
                  /\ \E k \in DOMAIN optimization.warnings :
                        NamesItem(optimization.warnings[k], i)
        /\ optimization.pay_now_total + optimization.bnpl_total =
              SumSeq([k \in DOMAIN PositionsIn(1, {i \in Positions : ~ NegativeAt(i)}) |->
                        cart_items[PositionsIn(1, {i \in Positions : ~ NegativeAt(i)})[k]].price])
        /\ \A i \in Positions :
              ~ NegativeAt(i) =>
                  Count(optimization.pay_now_items, i) + Count(optimization.bnpl_items, i) = 1

\* C12: the events get_payment_calendar returns are in non-decreasing order of
\* their date strings, and the order of the date strings is the order of the
\* dates they stand for, for all four types of event: PAYMENT, BNPL_PAYMENT
\* and BILL carry a date alone, INCOME a date with a time of day.
CalendarMade == ret # None /\ ret.op = "get_payment_calendar" /\ ret.error = ""

EventTypes(events) == {events[k].type : k \in DOMAIN events}

C12_CalendarSorted ==
    CalendarMade =>
        LET events == ret.value
        IN  /\ \A k \in 1..(Len(events) - 1) :
                  /\ ~ StrLess(events[k + 1].date, events[k].date)
                  /\ parse_date(events[k].date) <= parse_date(events[k + 1].date)
            /\ \A a, b \in DOMAIN events :
                  StrLess(events[a].date, events[b].date) =>
                      parse_date(events[a].date) <= parse_date(events[b].date)
            /\ EventTypes(events) \subseteq {"PAYMENT", "BNPL_PAYMENT", "BILL", "INCOME"}

\* All four types, and the paycheck on the day of an installment: the
\* installment's date is a prefix of the paycheck's and comes first.
C12_Witness ==
    /\ CalendarMade
    /\ EventTypes(ret.value) = {"PAYMENT", "BNPL_PAYMENT", "BILL", "INCOME"}
    /\ \E k \in 2..(Len(ret.value) - 1) :
          /\ ret.value[k].type = "INCOME"
          /\ Len(ret.value[k].date) = 2
          /\ ret.value[k - 1].type = "BNPL_PAYMENT"
          /\ ret.value[k - 1].date = << ret.value[k].date[1] >>
          /\ ret.value[k + 1].type = "BNPL_PAYMENT"

\* C13: a call of optimize_cart that follows a successful one for the same
\* user, at the same reading of the clock and on the same item objects (whose
\* is_essential flags the first call has set) returns the result the first
\* returned: the same lists, totals, recommendations, warnings and rule-based
\* summary, and with them the same calendar.  Floating-point arithmetic is
\* a function of its operands, so the half cents fall as they did before.
C13_Idempotent ==
    [][ (/\ Optimized
         /\ ret' # None
         /\ ret'.op = "optimize_cart" /\ ret'.error = ""
         /\ ret'.items = cart_items
         /\ ret'.user_id = ret.user_id
         /\ ret'.today = ret.today
         /\ ret'.ties = ret.ties)
        => /\ optimization' = optimization
           /\ ret'.finances = ret.finances
           /\ PaymentCalendar(optimization', cart_items', ret'.finances, now')
                = PaymentCalendar(optimization, cart_items, ret.finances, now)
           /\ cart_items' = cart_items ]_vars

\* The call was made on items that carried the flag already, and its result
\* has items of both kinds and a warning.
C13_Witness ==
    /\ Optimized
    /\ ret.items = cart_items
    /\ \E i \in Positions : ret.items[i].is_essential
    /\ optimization.pay_now_items # <<>>
    /\ optimization.bnpl_items # <<>>
    /\ optimization.warnings # <<>>

\* C14: when the total of the pay-now partition, computed once before the
\* loop over the candidates, exceeds what the account can spend, every
\* candidate of an eligible account priced at most $2000 is deferred for that
\* reason and one budget-is-tight warning is appended for each of them; the
\* total each candidate is tested against is that one, never a running total,
\* so that no such warning is made when it does not exceed what can be spent.
TightWarning == << "Budget is tight! Consider if all items are necessary." >>

WithinLimitCandidates == {i \in Positions : CandidateAt(i) /\ cart_items[i].price <= BNPL_MAX_AMOUNT}

C14_TightBudgetDefersAll ==
    Optimized =>
        IF ret.finances.bnpl_eligible /\ EssentialTotal > ret.finances.available_for_spending
        THEN /\ \A i \in WithinLimitCandidates :
                   /\ Count(optimization.bnpl_items, i) = 1
                   /\ \A k \in RecsOf(i) :
                         /\ optimization.recommendations[k].strategy = "BNPL"
                         /\ optimization.recommendations[k].reason =
                               << "Your essential purchases already exceed available funds." >>
             /\ Count(optimization.warnings, TightWarning) = Cardinality(WithinLimitCandidates)
        ELSE Count(optimization.warnings, TightWarning) = 0

C14_Witness ==
    /\ Optimized
    /\ ret.finances.bnpl_eligible
    /\ EssentialTotal > ret.finances.available_for_spending
    /\ Cardinality(WithinLimitCandidates) = 2
    /\ Count(optimization.warnings, TightWarning) = 2
    /\ Len(optimization.bnpl_items) = 2

\* C15: the worked example.  An eligible account with a balance of $500 and
\* $300 of bills in the window can spend $150 and has a safe ceiling of
\* $37.50; of the cart [Diapers $24.99 Baby & Kids, AirPods $149.99
\* Electronics, eligible] Diapers is paid now and AirPods is deferred because
\* essential total + price exceeds what can be spent (rule d); the payments
\* of its plan are $37.50, $37.50, $37.50, $37.49 and its dates today and
\* 2, 4 and 6 weeks later.
WorkedExample ==
    /\ Optimized
    /\ ret.finances.bnpl_eligible
    /\ ret.finances.current_balance = 50000
    /\ ret.finances.total_bills = 30000
    /\ Len(cart_items) = 2
    /\ cart_items[1].name = "Diapers" /\ cart_items[1].price = 2499
    /\ cart_items[1].category = "Baby & Kids"
    /\ cart_items[2].name = "AirPods" /\ cart_items[2].price = 14999
    /\ cart_items[2].category = "Electronics" /\ cart_items[2].bnpl_eligible

C15_WorkedExample ==
    WorkedExample =>
        LET day == ret.today \div TicksPerDay
        IN  /\ ret.finances.available_for_spending = 15000
            /\ ret.finances.safe_bnpl_installment = 3750
            /\ optimization.pay_now_items = << 1 >>
            /\ optimization.bnpl_items = << 2 >>
            /\ optimization.pay_now_total = 2499
            /\ optimization.bnpl_total = 14999
            /\ Len(optimization.recommendations) = 2
            /\ optimization.recommendations[1].item = 1
            /\ optimization.recommendations[1].strategy = "PAY_NOW"
            /\ optimization.recommendations[2].item = 2
            /\ optimization.recommendations[2].strategy = "BNPL"
            /\ optimization.recommendations[2].reason[1] = "Paying now would leave you with only"
            /\ optimization.recommendations[2].installment_amount = 3750
            /\ BnplPlan(14999, ret.today).payments = << 3750, 3750, 3750, 3749 >>
            /\ optimization.recommendations[2].payment_dates =
                  << << day >>, << day + 14 >>, << day + 28 >>, << day + 42 >> >>
            /\ optimization.recommendations[2].payment_dates = BnplPlan(14999, ret.today).payment_dates

C15_Witness ==
    /\ WorkedExample
    /\ optimization.recommendations[2].installment_amount = 3750
    /\ optimization.recommendations[2].payment_dates = << <<0>>, <<14>>, <<28>>, <<42>> >>

\* C16: classify_items returns two lists that are disjoint and together hold
\* every item of the input exactly once, each in the order of the input; an
\* item is in the list of deferral candidates iff its category is not
\* essential and it is itself eligible and its price is at least $35.  A $10
\* eligible Clothing item is thus in the pay-now list, and optimize_cart
\* makes it PAY_NOW.
Classified == ret # None /\ ret.op = "classify_items"

Increasing(seq) == \A a, b \in DOMAIN seq : a < b => seq[a] < seq[b]

Range(seq) == {seq[k] : k \in DOMAIN seq}

SmallClothingAt(i) ==
    /\ cart_items[i].category = "Clothing"
    /\ cart_items[i].price = 1000
    /\ cart_items[i].bnpl_eligible

C16_ClassifyPartitions ==
    /\ Classified =>
          LET essential == ret.value.essential
              discretionary == ret.value.discretionary
          IN  /\ Increasing(essential) /\ Increasing(discretionary)
              /\ Range(essential) \cap Range(discretionary) = {}
              /\ Range(essential) \cup Range(discretionary) = DOMAIN ret.items
              /\ Len(essential) + Len(discretionary) = Len(ret.items)
              /\ \A i \in DOMAIN ret.items :
                    i \in Range(discretionary) <=>
                        /\ ret.items[i].category \notin ESSENTIAL_CATEGORIES
                        /\ ret.items[i].bnpl_eligible
                        /\ ret.items[i].price >= 3500
              /\ \A i \in DOMAIN ret.items :
                    /\ cart_items[i].is_essential = (ret.items[i].category \in ESSENTIAL_CATEGORIES)
                    /\ [cart_items[i] EXCEPT !.is_essential = FALSE]
                         = [ret.items[i] EXCEPT !.is_essential = FALSE]
    /\ optimization # None =>
          \A i \in Positions :
              SmallClothingAt(i) =>
                  /\ Count(optimization.pay_now_items, i) = 1
                  /\ Count(optimization.bnpl_items, i) = 0
                  /\ \A k \in RecsOf(i) : optimization.recommendations[k].strategy = "PAY_NOW"

\* The $10 Clothing item between two candidates, classified.
C16_Witness ==
    /\ Classified
    /\ Len(ret.items) = MaxCart
    /\ SmallClothingAt(2)
    /\ ret.value.essential = << 2 >>
    /\ ret.value.discretionary = << 1, 3 >>

\* C17: for every profile, a zero or negative balance and bills beyond the
\* balance included, the snapshot's available_for_spending is
\* max(0, balance - upcoming bills - 10% of the balance), to the cent, and is
\* not negative, and its safe_bnpl_installment is 25% of that amount, to the
\* cent, and is not negative.
FundsMade == ret # None /\ ret.op = "calculate_available_funds" /\ ret.error = ""

C17_AvailableNotNegative ==
    FundsMade =>
        LET f == ret.value
            \* balance - bills - balance / 10, in tenths of a cent
            exact10 == 10 * f.current_balance - 10 * f.total_bills - f.current_balance
        IN  /\ f.current_balance = users[ret.user_id].bank_balance
            /\ f.available_for_spending >= 0
            /\ f.safe_bnpl_installment >= 0
            /\ exact10 <= 0 => f.available_for_spending = 0 /\ f.safe_bnpl_installment = 0
            /\ exact10 > 0 =>
                  /\ 10 * f.available_for_spending - exact10 \in -5..5
                  /\ 40 * f.safe_bnpl_installment - exact10 \in -20..20
            /\ 4 * f.safe_bnpl_installment - f.available_for_spending \in -2..2

\* A negative balance with bills in the window.
C17_Witness ==
    /\ FundsMade
    /\ ret.value.current_balance < 0
    /\ ret.value.total_bills > 0
    /\ ret.value.available_for_spending = 0
    /\ ret.value.safe_bnpl_installment = 0

\* C18, as claimed: a bill of the profile is in the snapshot's upcoming_bills,
\* and its amount in total_bills, iff its due date is from the current day to
\* the day the window ends, both included: a bill due on the current day and
\* a bill due on the last day of the window are counted.  total_bills is the
\* sum of the amounts of the bills listed.
StripBill(bill) == [name |-> bill.name, amount |-> bill.amount, due_date |-> bill.due_date]

RECURSIVE BillsDueBetween(_, _, _)
BillsDueBetween(bills, first_day, last_day) ==
    IF bills = <<>> THEN <<>>
    ELSE (IF first_day <= Head(bills).due_date[1] /\ Head(bills).due_date[1] <= last_day
          THEN << StripBill(Head(bills)) >> ELSE <<>>)
         \o BillsDueBetween(Tail(bills), first_day, last_day)

C18_BillsInWindow ==
    FundsMade =>
        LET f == ret.value
            day == ret.today \div TicksPerDay
        IN  /\ [k \in DOMAIN f.upcoming_bills |-> StripBill(f.upcoming_bills[k])]
                 = BillsDueBetween(users[ret.user_id].upcoming_bills, day, day + DAYS_AHEAD)
            /\ f.total_bills = BillTotal(f.upcoming_bills)

\* C19: the projected balance after the first payment is the current balance
\* less the pay-now total and the monthly installment, which is a quarter of
\* the deferred total (0 when nothing is deferred).  The warnings hold the
\* overdraft warning iff that value is below 0, the low-balance caution iff
\* it is from 0 up to $100, and neither when it is $100 or more: never both.
\* The result carries the value, and each warning its amount, to the cent.
OverdraftWarnings ==
    {k \in DOMAIN optimization.warnings :
        optimization.warnings[k][1] = "Warning: This purchase would overdraw your account by"}

CautionWarnings ==
    {k \in DOMAIN optimization.warnings :
        optimization.warnings[k][1] = "Caution: This would leave only"}

\* balance - (pay_now_total + bnpl_total / 4), in quarters of a cent
Projected4 ==
    4 * ret.finances.current_balance
    - (4 * optimization.pay_now_total
       + (IF optimization.bnpl_items # <<>> THEN optimization.bnpl_total ELSE 0))

C19_ProjectedBalanceWarnings ==
    Optimized =>
        /\ 4 * optimization.projected_balance - Projected4 \in -2..2
        /\ 4 * optimization.monthly_bnpl_payment
              - (IF optimization.bnpl_items # <<>> THEN optimization.bnpl_total ELSE 0) \in -2..2
        /\ optimization.bnpl_items = <<>> => optimization.monthly_bnpl_payment = 0
        /\ Cardinality(OverdraftWarnings) = (IF Projected4 < 0 THEN 1 ELSE 0)
        /\ Cardinality(CautionWarnings) =
              (IF Projected4 >= 0 /\ Projected4 < 4 * LOW_BALANCE THEN 1 ELSE 0)
        /\ Cardinality(OverdraftWarnings) + Cardinality(CautionWarnings) <= 1
        /\ \A k \in OverdraftWarnings :
              /\ k = Len(optimization.warnings)
              /\ 4 * optimization.warnings[k][2] + Projected4 \in -2..2
        /\ \A k \in CautionWarnings :
              /\ k = Len(optimization.warnings)
              /\ optimization.warnings[k][2] = optimization.projected_balance

\* Something is deferred, and its first installment is what takes the
\* balance below $100.
C19_Witness ==
    /\ Optimized
    /\ optimization.bnpl_items # <<>>
    /\ Cardinality(CautionWarnings) = 1
    /\ ret.finances.current_balance - optimization.pay_now_total >= LOW_BALANCE

\* C20: the calendar holds exactly one PAYMENT event, dated today, for minus
\* the pay-now total.  When something is deferred it holds exactly four
\* BNPL_PAYMENT events, dated today and 2, 4 and 6 weeks later, each for
\* minus a quarter of the deferred total and each carrying the names of all
\* the deferred items, and the four amounts add up to minus the deferred
\* total; when nothing is deferred it holds none.
RECURSIVE OfType(_, _)
OfType(events, type) ==
    IF events = <<>> THEN <<>>
    ELSE (IF Head(events).type = type THEN << Head(events) >> ELSE <<>>)
         \o OfType(Tail(events), type)

C20_CalendarPayments ==
    CalendarMade =>
        LET payments == OfType(ret.value, "PAYMENT")
            deferred == OfType(ret.value, "BNPL_PAYMENT")
            day == ret.today \div TicksPerDay
        IN  /\ Len(payments) = 1
            /\ payments[1].date = << day >>
            /\ payments[1].amount4 = 0 - 4 * optimization.pay_now_total
            /\ Len(deferred) = (IF optimization.bnpl_items # <<>> THEN 4 ELSE 0)
            /\ \A i \in DOMAIN deferred :
                  /\ deferred[i].date = << day + 14 * (i - 1) >>
                  /\ deferred[i].description = << "BNPL Payment", i, 4 >>
                  \* amount4 is in quarters of a cent
                  /\ deferred[i].amount4 = 0 - optimization.bnpl_total
                  /\ deferred[i].items =
                        [k \in DOMAIN optimization.bnpl_items |->
                            cart_items[optimization.bnpl_items[k]].name]
            /\ SumSeq([i \in DOMAIN deferred |-> deferred[i].amount4])
                  = 0 - 4 * optimization.bnpl_total

\* Two items are deferred, their total is not a multiple of four cents, and
\* the calendar is made in the course of a day.
C20_Witness ==
    /\ CalendarMade
    /\ ret.today % TicksPerDay # 0
    /\ Len(optimization.bnpl_items) = 2
    /\ optimization.bnpl_total % 4 # 0
    /\ optimization.pay_now_total > 0
    /\ Len(OfType(ret.value, "BNPL_PAYMENT")) = 4

\* C21: however the steps of the callers' optimize_cart and
\* get_payment_calendar calls, for different users and different carts, are
\* interleaved on the one agent, each call returns what it returns when run
\* alone with the same readings of the clock: the store is as it was loaded,
\* and the items of a call are written by that call's classification only.
AloneResult(k) ==
    CartOptimization(UserDb[k.user_id], k.finances, k.args_items,
                     OptimizeItems(UserDb[k.user_id], k.args_items, k.finances, k.plan_today),
                     k.ties[3], k.ties[4])

C21_CallsDoNotInterfere ==
    /\ calls # <<>> => users = UserDb
    /\ \A c \in DOMAIN calls :
          LET k == calls[c]
          IN  /\ k.pc \in {"funds", "classify"} => k.items = k.args_items
              /\ k.pc \notin {"funds", "raised"} =>
                    k.finances = Finances(UserDb[k.user_id], k.today, k.ties[1], k.ties[2])
              /\ k.pc \in {"loops", "totals", "cal_funds", "cal_events", "done"} =>
                    k.items = classify_items(k.args_items).items
              /\ k.pc \in {"cal_funds", "cal_events", "done"} => k.result = AloneResult(k)
              /\ k.pc = "done" =>
                    k.calendar = PaymentCalendar(AloneResult(k), k.args_items,
                                                 k.cal_finances, k.cal_today)

\* Both calls began before the clock moved and ended after it; one deferred
\* an item and the other flagged an essential one.
C21_Witness ==
    /\ calls # <<>>
    /\ \A c \in DOMAIN calls :
          /\ calls[c].pc = "done"
          /\ calls[c].today = 0
          /\ calls[c].cal_today = MaxTick
    /\ calls[1].result.bnpl_items # <<>>
    /\ \E i \in DOMAIN calls[2].items : calls[2].items[i].is_essential
    /\ calls[1].args_items # calls[2].args_items

\* C22: when the narrative generator raises in the course of the summary,
\* optimize_cart still returns a complete result: its summary is the
\* rule-based text, and its lists, totals, recommendations and warnings are
\* those of an agent that has no generator.
WithoutGenerator ==
    CartOptimization(users[ret.user_id], ret.finances, ret.items,
                     OptimizeItems(users[ret.user_id], ret.items, ret.finances, ret.today),
                     ret.ties[3], ret.ties[4])

C22_GeneratorFailureRecovered ==
    (Optimized /\ "llm" \in DOMAIN ret) =>
        /\ ret.llm = "raises" =>
              /\ optimization = WithoutGenerator
              /\ optimization.summary[1] \in {"Great news!", "Smart Payment Strategy for"}
        /\ [optimization EXCEPT !.summary = <<>>] = [WithoutGenerator EXCEPT !.summary = <<>>]

C22_Witness ==
    /\ Optimized
    /\ "llm" \in DOMAIN ret
    /\ ret.llm = "raises"
    /\ optimization.bnpl_items # <<>>
    /\ optimization.summary[1] = "Smart Payment Strategy for"

\* C23: every item of bnpl_items is an item of an account that is eligible
\* for deferred payment, is itself eligible, is of a category that is not
\* essential and is priced from $35 to $2000; so for an account that is not
\* eligible bnpl_items is empty and the monthly installment is 0.
C23_DeferredItemsAreEligible ==
    Optimized =>
        /\ \A k \in DOMAIN optimization.bnpl_items :
              LET item == cart_items[optimization.bnpl_items[k]]
              IN  /\ ret.finances.bnpl_eligible
                  /\ users[ret.user_id].bnpl_eligible
                  /\ item.bnpl_eligible
                  /\ item.category \notin ESSENTIAL_CATEGORIES
                  /\ ~ item.is_essential
                  /\ 3500 <= item.price /\ item.price <= 200000
        /\ ~ users[ret.user_id].bnpl_eligible =>
              /\ optimization.bnpl_items = <<>>
              /\ optimization.bnpl_total = 0
              /\ optimization.monthly_bnpl_payment = 0

\* An account that is not eligible, and a cart with an item that an
\* eligible account would defer.
C23_Witness ==
    /\ Optimized
    /\ ~ users[ret.user_id].bnpl_eligible
    /\ \E i \in Positions :
          /\ cart_items[i].name = "AirPods"
          /\ Count(optimization.pay_now_items, i) = 1
    /\ optimization.monthly_bnpl_payment = 0

\* C24: the strategy of a deferral candidate depends on the snapshot, the
\* total of the classifier's pay-now partition and the candidate's own price
\* only.  It stays the same when another candidate is taken out of the cart
\* (or, read the other way, put into it), and when the cart is reordered: a
\* permutation of the cart gives the same pay_now_items and bnpl_items as
\* sets of items, and the same totals.
Perms(n) == {f \in [1..n -> 1..n] : \A a, b \in 1..n : f[a] = f[b] => a = b}

\* The cart without the item at position j.
Without(items, j) ==
    [k \in 1..(Len(items) - 1) |-> IF k < j THEN items[k] ELSE items[k + 1]]

\* As optimize_cart would go through the cart given, with the snapshot and
\* the clock of the call made.
Reoptimized(items) == OptimizeItems(users[ret.user_id], items, ret.finances, ret.today)

StrategyAt(recommendations, i) ==
    {recommendations[k].strategy : k \in {r \in DOMAIN recommendations : recommendations[r].item = i}}

C24_OtherCandidatesDoNotMatter ==
    Optimized =>
        /\ \A f \in Perms(Len(cart_items)) :
              LET o == Reoptimized([k \in 1..Len(cart_items) |-> cart_items[f[k]]])
              IN  /\ {f[o.pay_now_items[k]] : k \in DOMAIN o.pay_now_items}
                       = Range(optimization.pay_now_items)
                  /\ {f[o.bnpl_items[k]] : k \in DOMAIN o.bnpl_items}
                       = Range(optimization.bnpl_items)
                  /\ o.pay_now_total = optimization.pay_now_total
                  /\ o.bnpl_total = optimization.bnpl_total
        /\ \A i, j \in Positions :
              (i # j /\ CandidateAt(i) /\ CandidateAt(j)) =>
                  StrategyAt(Reoptimized(Without(cart_items, j)).recommendations,
                             IF i < j THEN i ELSE i - 1)
                    = StrategyAt(optimization.recommendations, i)

\* Three candidates of an eligible account, not all treated alike.
C24_Witness ==
    /\ Optimized
    /\ ret.finances.bnpl_eligible
    /\ Len(cart_items) = MaxCart
    /\ \A i \in Positions : CandidateAt(i)
    /\ optimization.bnpl_items # <<>>
    /\ optimization.pay_now_items # <<>>
    /\ cart_items[1] # cart_items[2]

\* C25, as claimed: for an eligible account, a candidate priced at most $2000
\* that passes rules c and d (essential total + price <= available) has
\* price / 4 <= available / 4; so whenever 4 * ceiling >= available it is
\* deferred by rule e, and is never paid now by rule f.
PassesBudgetRules(i) ==
    /\ CandidateAt(i)
    /\ cart_items[i].price <= BNPL_MAX_AMOUNT
    /\ EssentialTotal <= ret.finances.available_for_spending
    /\ EssentialTotal + cart_items[i].price <= ret.finances.available_for_spending

C25_SufficientFundsOnlyByRounding ==
    (/\ Optimized
     /\ ret.finances.bnpl_eligible
     /\ 4 * ret.finances.safe_bnpl_installment >= ret.finances.available_for_spending) =>
        \A i \in Positions :
            PassesBudgetRules(i) =>
                /\ Count(optimization.bnpl_items, i) = 1
                /\ \A k \in RecsOf(i) :
                      optimization.recommendations[k].reason[1] = "this fits comfortably in your budget"

\* C26, as claimed: for every amount of whole cents >= 0 each of the 4
\* payments of the plan is >= 0, and the last differs from the base by at
\* most 2 cents.
C26_Original ==
    PlanMade =>
        /\ \A k \in 1..4 : ret.value.payments[k] >= 0
        /\ ret.value.payments[4] - ret.value.installment_amount \in -2..2

\* C26, amended: for every amount of whole cents >= 0 the last payment
\* differs from the base by at most 2 cents, and every payment is >= 0 unless
\* the amount is 2 cents: a quarter of $0.02 is rounded up to $0.01, and the
\* plan of $0.02 is $0.01, $0.01, $0.01, -$0.01.
C26_PaymentsNotNegative ==
    PlanMade =>
        /\ ret.value.payments[4] - ret.value.installment_amount \in -2..2
        /\ ret.amount # 2 => \A k \in 1..4 : ret.value.payments[k] >= 0
        /\ ret.amount = 2 => ret.value.payments = << 1, 1, 1, -1 >>

C26_Witness ==
    /\ PlanMade
    /\ ret.amount = 2
    /\ ret.value.payments[4] < 0

\* C27: the essential total that rules c and d compare with what can be
\* spent is the sum of the prices of the classifier's whole pay-now
\* partition: the items of an essential category and the items of another
\* category that are not themselves eligible or are priced under $35.  No
\* deferral candidate is in it, not even one paid now by rule a, b or f.
InPayNowPartition(i) ==
    \/ cart_items[i].category \in ESSENTIAL_CATEGORIES
    \/ ~ cart_items[i].bnpl_eligible
    \/ cart_items[i].price < 3500

PartitionTotal ==
    LET partition == PositionsIn(1, {i \in Positions : InPayNowPartition(i)})
    IN  SumSeq([k \in DOMAIN partition |-> cart_items[partition[k]].price])

C27_EssentialTotalIsPartitionTotal ==
    (Optimized /\ ret.finances.bnpl_eligible) =>
        \A k \in DOMAIN optimization.recommendations :
            LET rec == optimization.recommendations[k]
                price == cart_items[rec.item].price
                available == ret.finances.available_for_spending
            IN  (~ InPayNowPartition(rec.item) /\ price <= 200000) =>
                    /\ rec.reason[1] = "Your essential purchases already exceed available funds."
                          <=> PartitionTotal > available
                    /\ rec.reason[1] = "Paying now would leave you with only"
                          <=> PartitionTotal <= available /\ PartitionTotal + price > available
                    /\ rec.reason[1] = "Paying now would leave you with only"
                          => rec.reason[2] = available - PartitionTotal - price

\* A fallen-back item is what takes the candidate over what can be spent
\* (rule d), and a candidate paid now by rule b is left out of the total.
C27_Witness ==
    /\ Optimized
    /\ ret.finances.bnpl_eligible
    /\ Len(cart_items) = MaxCart
    /\ \E i, j, l \in Positions :
          /\ ~ IsEssentialCategory(cart_items[i]) /\ InPayNowPartition(i)
          /\ OverLimitCandidateAt(j)
          /\ CandidateAt(l)
          /\ \E k \in RecsOf(l) :
                /\ optimization.recommendations[k].reason[1] = "Paying now would leave you with only"
                /\ cart_items[l].price <= ret.finances.available_for_spending

\* C28, as claimed: for a result with deferred items, the dates of the four
\* BNPL_PAYMENT events of a calendar built from it are the payment dates of
\* each deferred recommendation of the result, and the PAYMENT event carries
\* the date of the optimization, whenever the calendar is asked for after
\* the optimization, on a later day included.
C28_CalendarDatesAreThePlanDates ==
    (CalendarMade /\ optimization.bnpl_items # <<>>) =>
        LET deferred == OfType(ret.value, "BNPL_PAYMENT")
            payments == OfType(ret.value, "PAYMENT")
        IN  \A k \in DOMAIN optimization.recommendations :
                LET rec == optimization.recommendations[k]
                IN  rec.strategy = "BNPL" =>
                        /\ [i \in DOMAIN deferred |-> deferred[i].date] = rec.payment_dates
                        /\ payments[1].date = rec.payment_dates[1]

\* The cart as entered: the items without the flag classification sets.
Entered(items) == [i \in DOMAIN items |-> [items[i] EXCEPT !.is_essential = FALSE]]

\* C30, as claimed: in the application the result and the calendar on
\* display were computed for the selected user from the cart the session
\* holds, and the bills and paycheck of the calendar are those of the user
\* the result was computed for.
C30_DisplayIsCurrent ==
    (session.display # None) =>
        /\ session.result_user = session.selected_user_id
        /\ Entered(session.result_items) = Entered(cart_items)

\* C29, as claimed: every INCOME event of a calendar has an amount greater
\* than zero and a date within DAYS_AHEAD days from the time of the call; a
\* paycheck outside that window gives no INCOME event.
C29_IncomeEventsInWindow ==
    CalendarMade =>
        \A k \in DOMAIN ret.value :
            ret.value[k].type = "INCOME" =>
                /\ ret.value[k].amount4 > 0
                /\ ret.today <= parse_date(ret.value[k].date)
                /\ parse_date(ret.value[k].date) <= ret.today + timedelta_days(DAYS_AHEAD)
====
